---- MODULE Spec2Model ----
(***************************************************************************)
(* Model of the XMPP message stanza decoder/encoder of gosrc.io/xmpp       *)
(* (message.go, msg_chat_markers.go).                                      *)
(*                                                                         *)
(* The token reader is encoding/xml's Decoder: it delivers StartElement,   *)
(* EndElement and CharData tokens of a well nested document, or an error   *)
(* when the stream breaks off.  Strings are TLA+ strings; "" is Go's empty *)
(* string.  A Go nil pointer / nil reflect.Type is Nil.                    *)
(***************************************************************************)
EXTENDS Integers, Sequences, FiniteSets, TLC

VARIABLES
    msgTypeRegistry,  \* message.go:185, map[string]map[string]reflect.Type
    initPc,           \* number of statements of init() (message.go:188-196) executed
    calls,            \* the decode calls of this run (each has its own reader)
    input,            \* input[c]: the token stream call c's reader is reading
    pos,              \* pos[c]: number of tokens of input[c] consumed so far
    eof,              \* eof[c]: {n} when the stream broke off after n tokens, else Whole
    pc,               \* pc[c]: where call c is
    attrIdx,          \* attrIdx[c]: attributes of the start tag handled so far
    msg,              \* msg[c]: the Message being filled (var packet, message.go:44)
    err,              \* err[c]: what UnmarshalXML returned
    ret,              \* ret[c]: what messageDecoder.decode returned to its caller
    sent,             \* sent[c]: {the Message the input was encoded from}, or {}
    typeRegistry,     \* the registry msg_chat_markers.go registers its shapes in
    markersPc,        \* number of statements of init() (msg_chat_markers.go:36-39) executed
    encoded           \* encoded[c]: {XMPPFormat of the Message call c returned}, or {}

vars == <<msgTypeRegistry, initPc, calls, input, pos, eof, pc, attrIdx,
          msg, err, ret, sent, typeRegistry, markersPc, encoded>>

Nil == "nil"

\* A pointer is the set of what it points to: {} is the nil pointer.
NilPtr == {}

\* eof[c] of a stream that has not broken off.
Whole == {}

\* The tokens of s a reader delivers when the stream breaks off as brk says.
StreamUpTo(s, brk) ==
    IF brk = Whole THEN s ELSE SubSeq(s, 1, CHOOSE n \in brk : TRUE)

\* ret[c] while the call has not returned.
Pending == "pending"

(***************************************************************************)
(* Bounds of the model.                                                    *)
(***************************************************************************)
MaxChildren == 3   \* children of a wire stanza
MaxAttrs == 2      \* attributes on a wire stanza's start tag
MaxExts == 2       \* extensions of an encoded Message
MaxCalls == 2      \* concurrent decode calls

(***************************************************************************)
(* xml.Name, tokens.                                                       *)
(***************************************************************************)
Name(space, local) == [Space |-> space, Local |-> local]
Attr(space, local, value) == [Name |-> Name(space, local), Value |-> value]
StartElement(name, attr) == [kind |-> "StartElement", Name |-> name, Attr |-> attr]
EndElement(name) == [kind |-> "EndElement", Name |-> name]
CharData(text) == [kind |-> "CharData", Data |-> text]

\* xml.StartElement.End(): the end element with the start element's name.
End(start) == EndElement(start.Name)

NSClient == "jabber:client"
NSSpaceXEP0184Receipt == "urn:xmpp:receipts"
NSSpaceXEP0333ChatMarkers == "urn:xmpp:chat-markers:0"
NSOOB == "jabber:x:oob"
NSUnknown == "urn:example:unknown"
NSForward == "urn:xmpp:forward:0"

(***************************************************************************)
(* The extension shapes: their XMLName struct tags and whether they carry  *)
(* an Id attribute field.                                                  *)
(***************************************************************************)
XMLNameTag(T) ==
    CASE T = "ReceiptRequest"         -> Name(NSSpaceXEP0184Receipt, "request")
      [] T = "ReceiptReceived"        -> Name(NSSpaceXEP0184Receipt, "received")
      [] T = "ChatMarkerMarkable"     -> Name(NSSpaceXEP0333ChatMarkers, "markable")
      [] T = "ChatMarkerReceived"     -> Name(NSSpaceXEP0333ChatMarkers, "received")
      [] T = "ChatMarkerDisplayed"    -> Name(NSSpaceXEP0333ChatMarkers, "displayed")
      [] T = "ChatMarkerAcknowledged" -> Name(NSSpaceXEP0333ChatMarkers, "acknowledged")
      [] T = "MsgXOOB"                -> Name(NSOOB, "x")

HasIdAttr(T) ==
    T \in {"ReceiptReceived", "ChatMarkerReceived", "ChatMarkerDisplayed",
           "ChatMarkerAcknowledged"}

(***************************************************************************)
(* The registry and init().                                                *)
(***************************************************************************)
EmptyMap == [k \in {} |-> Nil]

\* The statements of init(), in order.
InitStatements ==
    << [op |-> "make", ns |-> NSSpaceXEP0184Receipt],
       [op |-> "set", ns |-> NSSpaceXEP0184Receipt, local |-> "request",
        type |-> "ReceiptRequest"],
       [op |-> "set", ns |-> NSSpaceXEP0184Receipt, local |-> "received",
        type |-> "ReceiptReceived"],
       [op |-> "make", ns |-> NSSpaceXEP0333ChatMarkers],
       [op |-> "set", ns |-> NSSpaceXEP0333ChatMarkers, local |-> "markable",
        type |-> "ChatMarkerMarkable"],
       [op |-> "set", ns |-> NSSpaceXEP0333ChatMarkers, local |-> "received",
        type |-> "ChatMarkerReceived"],
       [op |-> "set", ns |-> NSSpaceXEP0333ChatMarkers, local |-> "displayed",
        type |-> "ChatMarkerDisplayed"],
       [op |-> "set", ns |-> NSSpaceXEP0333ChatMarkers, local |-> "acknowledged",
        type |-> "ChatMarkerAcknowledged"] >>

\* msg_chat_markers.go.
NSMsgChatMarkers == "urn:xmpp:chat-markers:0"

\* The statements of msg_chat_markers.go's init(), in order.
MarkerStatements ==
    << [name |-> [Space |-> NSMsgChatMarkers, Local |-> "markable"],
        type |-> "Markable"],
       [name |-> [Space |-> NSMsgChatMarkers, Local |-> "received"],
        type |-> "MarkReceived"],
       [name |-> [Space |-> NSMsgChatMarkers, Local |-> "displayed"],
        type |-> "MarkDisplayed"],
       [name |-> [Space |-> NSMsgChatMarkers, Local |-> "acknowledged"],
        type |-> "MarkAcknowledged"] >>

\* typeRegistry.MapExtension(PKTMessage, name, extension): binds the key
\* `name` to the shape of `extension` for message stanzas.
MapExtension(reg, name, type) == (name :> type) @@ reg

\* Both init() functions of the package have run.
InitDone == initPc = Len(InitStatements) /\ markersPc = Len(MarkerStatements)

\* One statement of init() applied to the registry.
Execute(reg, st) ==
    IF st.op = "make"
    THEN (st.ns :> EmptyMap) @@ reg
    ELSE [reg EXCEPT ![st.ns] = (st.local :> st.type) @@ @]

\* A registry keyed by the local name alone.
LookupByLocalName(reg, name) ==
    LET hits == {ns \in DOMAIN reg : name.Local \in DOMAIN reg[ns]}
    IN IF hits = {} THEN Nil ELSE reg[CHOOSE ns \in hits : TRUE][name.Local]

\* msgTypeRegistry[space][local]: indexing a missing key of a Go map gives the
\* zero value (a nil inner map, then a nil reflect.Type).
Lookup(reg, name) ==
    IF name.Space \in DOMAIN reg
    THEN IF name.Local \in DOMAIN reg[name.Space]
         THEN reg[name.Space][name.Local]
         ELSE Nil
    ELSE Nil

\* The registry once init() has run: what every decode call reads.
RECURSIVE ExecuteAll(_, _)
ExecuteAll(reg, n) ==
    IF n = 0 THEN reg ELSE Execute(ExecuteAll(reg, n - 1), InitStatements[n])

(***************************************************************************)
(* What encoding/xml does with a token stream.                             *)
(***************************************************************************)
\* Index of the end element closing the element opened before index i at
\* nesting depth `depth`; 0 when the stream ends first.
RECURSIVE Scan(_, _, _)
Scan(s, i, depth) ==
    IF i > Len(s) THEN 0
    ELSE IF s[i].kind = "StartElement" THEN Scan(s, i + 1, depth + 1)
    ELSE IF s[i].kind = "EndElement"
         THEN IF depth = 1 THEN i ELSE Scan(s, i + 1, depth - 1)
    ELSE Scan(s, i + 1, depth)

\* The end element matching the start element s[p].
MatchingEnd(s, p) == Scan(s, p + 1, 1)

\* The character data directly inside the element s[p] .. s[e]: what
\* DecodeElement stores into a string (nested elements are skipped).
RECURSIVE Gather(_, _, _, _)
Gather(s, i, e, depth) ==
    IF i >= e THEN ""
    ELSE IF s[i].kind = "StartElement" THEN Gather(s, i + 1, e, depth + 1)
    ELSE IF s[i].kind = "EndElement" THEN Gather(s, i + 1, e, depth - 1)
    ELSE (IF depth = 1 THEN s[i].Data ELSE "") \o Gather(s, i + 1, e, depth)

ElementText(s, p, e) == Gather(s, p + 1, e, 1)

\* The value of the last attribute with this local name, "" when there is none
\* (an `xml:"id,attr"` field matches on the local name).
AttrValue(attrs, local) ==
    LET idx == {i \in 1..Len(attrs) : attrs[i].Name.Local = local}
    IN IF idx = {} THEN ""
       ELSE attrs[CHOOSE i \in idx : \A j \in idx : j <= i].Value

\* DecodeElement into a struct with an XMLName tag fails unless the start
\* element carries the tag's name and namespace.
XMLNameMatches(T, name) == XMLNameTag(T) = name

\* reflect.New(extensionType) filled by DecodeElement from the start element.
NewExtension(T, tt) ==
    [type |-> T, XMLName |-> tt.Name,
     Id |-> IF HasIdAttr(T) THEN AttrValue(tt.Attr, "id") ELSE ""]

(***************************************************************************)
(* Message.                                                                *)
(***************************************************************************)
ZeroErr == <<>>

ZeroMessage ==
    [XMLName |-> Name("", ""),
     Id |-> "", From |-> "", To |-> "", Type |-> "", Lang |-> "",
     Subject |-> "", Body |-> "", Thread |-> "", Error |-> ZeroErr,
     Extensions |-> <<>>, X |-> NilPtr]

\* The body of the loop over start.Attr for one attribute.
SetAttr(m, attr) ==
    LET m1 == IF attr.Name.Local = "id" THEN [m EXCEPT !.Id = attr.Value] ELSE m
        m2 == IF attr.Name.Local = "type" THEN [m1 EXCEPT !.Type = attr.Value] ELSE m1
        m3 == IF attr.Name.Local = "to" THEN [m2 EXCEPT !.To = attr.Value] ELSE m2
        m4 == IF attr.Name.Local = "from" THEN [m3 EXCEPT !.From = attr.Value] ELSE m3
    IN IF attr.Name.Local = "lang" THEN [m4 EXCEPT !.Lang = attr.Value] ELSE m4

\* The Err payload DecodeElement(&msg.Error, &tt) stores: opaque to this core,
\* kept as the tokens of the element.
DecodeErr(s, p, e) == SubSeq(s, p, e)

ErrEOF == "unexpected EOF"
ErrUnmarshal == "expected element type"
ErrNotConsumed == "UnmarshalXML did not consume entire element"

\* The outcome of handling one token: the Message, the tokens consumed, the
\* error, and whether UnmarshalXML returns.
Result(m, p, e, r) == [msg |-> m, pos |-> p, err |-> e, returned |-> r]

\* A default branch that keeps an element without a case as a raw extension.
DecodeDefaultElementKeepUnknown(s, m, p) ==
    LET tt == s[p]
        e == MatchingEnd(s, p)
    IN IF tt.Name.Local \in {"body", "thread", "subject", "error"}
       THEN IF e = 0 THEN Result(m, Len(s), ErrEOF, TRUE)
            ELSE Result(CASE tt.Name.Local = "body" ->
                               [m EXCEPT !.Body = ElementText(s, p, e)]
                          [] tt.Name.Local = "thread" ->
                               [m EXCEPT !.Thread = ElementText(s, p, e)]
                          [] tt.Name.Local = "subject" ->
                               [m EXCEPT !.Subject = ElementText(s, p, e)]
                          [] tt.Name.Local = "error" ->
                               [m EXCEPT !.Error = DecodeErr(s, p, e)],
                        e, Nil, FALSE)
       ELSE Result([m EXCEPT !.Extensions =
                        Append(@, [type |-> "Raw", XMLName |-> tt.Name, Id |-> ""])],
                   p, Nil, FALSE)

\* The else branch of the StartElement case ("Decode default message
\* elements"); s[p] is the start element just read.  DecodeElement consumes
\* the element through its end tag, or fails when the stream ends first; a
\* local name without a case consumes nothing.
DecodeDefaultElement(s, m, p) ==
    LET tt == s[p]
        e == MatchingEnd(s, p)
    IN IF tt.Name.Local \in {"body", "thread", "subject", "error"}
       THEN IF e = 0 THEN Result(m, Len(s), ErrEOF, TRUE)
            ELSE Result(CASE tt.Name.Local = "body" ->
                               [m EXCEPT !.Body = ElementText(s, p, e)]
                          [] tt.Name.Local = "thread" ->
                               [m EXCEPT !.Thread = ElementText(s, p, e)]
                          [] tt.Name.Local = "subject" ->
                               [m EXCEPT !.Subject = ElementText(s, p, e)]
                          [] tt.Name.Local = "error" ->
                               [m EXCEPT !.Error = DecodeErr(s, p, e)],
                        e, Nil, FALSE)
       ELSE Result(m, p, Nil, FALSE)

\* A StartElement case that makes the instance of a registered shape and
\* appends it without decoding the element into it.
OnStartElementNoDecode(reg, s, m, p) ==
    LET tt == s[p]
        extensionType == Lookup(reg, tt.Name)
    IN IF extensionType # Nil
       THEN Result([m EXCEPT !.Extensions =
                        Append(@, [type |-> extensionType, XMLName |-> Name("", ""),
                                   Id |-> ""])],
                   p, Nil, FALSE)
       ELSE DecodeDefaultElement(s, m, p)

\* A StartElement case that appends the new instance before it looks at
\* DecodeElement's error.
OnStartElementAppendFirst(reg, s, m, p) ==
    LET tt == s[p]
        extensionType == Lookup(reg, tt.Name)
        e == MatchingEnd(s, p)
        appended == [m EXCEPT !.Extensions =
                         Append(@, NewExtension(extensionType, tt))]
    IN IF extensionType # Nil
       THEN IF ~XMLNameMatches(extensionType, tt.Name)
            THEN Result(appended, p, ErrUnmarshal, TRUE)
            ELSE IF e = 0 THEN Result(appended, Len(s), ErrEOF, TRUE)
            ELSE Result(appended, e, Nil, FALSE)
       ELSE DecodeDefaultElement(s, m, p)

\* The StartElement case of the token loop; s[p] is the start element.
OnStartElement(reg, s, m, p) ==
    LET tt == s[p]
        extensionType == Lookup(reg, tt.Name)
        e == MatchingEnd(s, p)
    IN IF extensionType # Nil
       THEN IF ~XMLNameMatches(extensionType, tt.Name)
            THEN Result(m, p, ErrUnmarshal, TRUE)
            ELSE IF e = 0 THEN Result(m, Len(s), ErrEOF, TRUE)
            ELSE Result([m EXCEPT !.Extensions =
                             Append(@, NewExtension(extensionType, tt))],
                        e, Nil, FALSE)
       ELSE DecodeDefaultElement(s, m, p)

\* The EndElement case; s[p] is the end element, start the stanza's start tag.
OnEndElement(s, start, m, p) ==
    IF s[p] = End(start) THEN Result(m, p, Nil, TRUE) ELSE Result(m, p, Nil, FALSE)

\* One iteration of the token loop after p tokens of s have been consumed.
OnToken(reg, s, m, p) ==
    IF p >= Len(s) THEN Result(m, p, ErrEOF, TRUE)
    ELSE CASE s[p + 1].kind = "StartElement" -> OnStartElement(reg, s, m, p + 1)
           [] s[p + 1].kind = "EndElement" -> OnEndElement(s, s[1], m, p + 1)
           [] OTHER -> Result(m, p + 1, Nil, FALSE)

\* A lookup that creates the missing inner map of a namespace.
RegistryAfterLookupLazyMake(reg, name) ==
    IF name.Space \in DOMAIN reg THEN reg ELSE (name.Space :> EmptyMap) @@ reg

\* msgTypeRegistry[elementType][tt.Name.Local] is a read: it leaves the map
\* as it is.
RegistryAfterLookup(reg, name) == reg

\* What p.DecodeElement(&packet, &se) reports once UnmarshalXML has returned e
\* after p tokens: encoding/xml refuses an UnmarshalXML that returns nil
\* without having read the element's own end tag.
DecodeElementErr(s, p, e) ==
    IF e # Nil THEN e
    ELSE IF p # MatchingEnd(s, 1) THEN ErrNotConsumed
    ELSE Nil

(***************************************************************************)
(* The encoder: xml.MarshalIndent(msg, "", "") driven by Message's struct  *)
(* tags, as the tokens a reader gets back from its output.                 *)
(***************************************************************************)
AttrIf(local, v) == IF v = "" THEN <<>> ELSE <<Attr("", local, v)>>

\* PacketAttrs: the five attributes, each omitted when empty.
EncodeAttrs(m) ==
    AttrIf("id", m.Id) \o AttrIf("from", m.From) \o AttrIf("to", m.To)
        \o AttrIf("type", m.Type) \o AttrIf("lang", m.Lang)

\* A string field tagged `xml:"<local>,omitempty"`.
EncodeString(space, local, v) ==
    IF v = "" THEN <<>>
    ELSE <<StartElement(Name(space, local), <<>>), CharData(v),
           EndElement(Name(space, local))>>

\* The Err payload: omitted when it is the zero value.
EncodeErr(e) == e

\* One element of Extensions, under its shape's XMLName tag.
EncodeExtension(x) ==
    <<StartElement(XMLNameTag(x.type),
                   IF HasIdAttr(x.type) THEN <<Attr("", "id", x.Id)>> ELSE <<>>),
      EndElement(XMLNameTag(x.type))>>

\* Extensions marshalled from the last element of the slice to the first.
RECURSIVE EncodeExtensionsReversed(_)
EncodeExtensionsReversed(exts) ==
    IF exts = <<>> THEN <<>>
    ELSE EncodeExtensionsReversed(Tail(exts)) \o EncodeExtension(Head(exts))

\* Extensions []MsgExtension `xml:",omitempty"`: the elements of the slice in
\* slice order.
RECURSIVE EncodeExtensions(_)
EncodeExtensions(exts) ==
    IF exts = <<>> THEN <<>>
    ELSE EncodeExtension(Head(exts)) \o EncodeExtensions(Tail(exts))

\* X *MsgXOOB `xml:",omitempty"`: omitted when nil; url always, desc when
\* not empty; the children inherit the element's namespace.
EncodeX(x) ==
    IF x = NilPtr THEN <<>>
    ELSE LET oob == CHOOSE o \in x : TRUE IN
         <<StartElement(XMLNameTag("MsgXOOB"), <<>>),
           StartElement(Name(NSOOB, "url"), <<>>)>>
         \o (IF oob.URL = "" THEN <<>> ELSE <<CharData(oob.URL)>>)
         \o <<EndElement(Name(NSOOB, "url"))>>
         \o EncodeString(NSOOB, "desc", oob.Desc)
         \o <<EndElement(XMLNameTag("MsgXOOB"))>>

\* A Message whose X field is declared before Extensions.
XMPPFormatXFirst(m) ==
    <<StartElement(Name("", "message"), EncodeAttrs(m))>>
        \o EncodeString("", "subject", m.Subject)
        \o EncodeString("", "body", m.Body)
        \o EncodeString("", "thread", m.Thread)
        \o EncodeErr(m.Error)
        \o EncodeX(m.X)
        \o EncodeExtensions(m.Extensions)
        \o <<EndElement(Name("", "message"))>>

\* xml.MarshalIndent(msg, "", ""): the start tag with PacketAttrs' attributes,
\* then the fields in the order Message declares them.
XMPPFormat(m) ==
    <<StartElement(Name("", "message"), EncodeAttrs(m))>>
        \o EncodeString("", "subject", m.Subject)
        \o EncodeString("", "body", m.Body)
        \o EncodeString("", "thread", m.Thread)
        \o EncodeErr(m.Error)
        \o EncodeExtensions(m.Extensions)
        \o EncodeX(m.X)
        \o <<EndElement(Name("", "message"))>>

(***************************************************************************)
(* The inputs of the model.                                                *)
(***************************************************************************)
Leaf(name, attr) == <<StartElement(name, attr), EndElement(name)>>
Elem(name, content) == <<StartElement(name, <<>>)>> \o content \o <<EndElement(name)>>
TextElem(name, text) == Elem(name, <<CharData(text)>>)

MessageName == Name(NSClient, "message")

\* The children a wire stanza is built from.
FragRequest == Leaf(Name(NSSpaceXEP0184Receipt, "request"), <<>>)
FragReceiptReceived ==
    Leaf(Name(NSSpaceXEP0184Receipt, "received"), <<Attr("", "id", "m1")>>)
FragChatReceived ==
    Leaf(Name(NSSpaceXEP0333ChatMarkers, "received"), <<Attr("", "id", "m2")>>)
FragBodyFirst == TextElem(Name(NSClient, "body"), "first")
FragBodySecond == TextElem(Name(NSClient, "body"), "second")
FragError == TextElem(Name(NSClient, "error"), "e1")
\* same local name as a registered extension, another namespace
FragUnknown == Leaf(Name(NSUnknown, "received"), <<>>)
\* an unregistered element with children of its own
FragWrapped ==
    Elem(Name(NSUnknown, "wrapper"),
         TextElem(Name(NSClient, "body"), "third") \o FragRequest)
\* XEP-0297: a forwarded message, not registered
FragForwarded ==
    Elem(Name(NSForward, "forwarded"), <<CharData(" ")>> \o Elem(MessageName, <<>>))
FragOOB ==
    Elem(Name(NSOOB, "x"), TextElem(Name(NSOOB, "url"), "u1"))
\* a registered extension with an element named like a core child inside
FragReceiptNested ==
    <<StartElement(Name(NSSpaceXEP0184Receipt, "received"), <<Attr("", "id", "m3")>>)>>
        \o TextElem(Name(NSClient, "body"), "inner")
        \o <<EndElement(Name(NSSpaceXEP0184Receipt, "received"))>>

Fragments ==
    {FragRequest, FragReceiptReceived, FragChatReceived, FragBodyFirst,
     FragBodySecond, FragError, FragUnknown, FragWrapped, FragForwarded, FragOOB,
     FragReceiptNested}

SeqsUpTo(S, n) == UNION {[1..k -> S] : k \in 0..n}

RECURSIVE Flatten(_)
Flatten(ss) == IF ss = <<>> THEN <<>> ELSE Head(ss) \o Flatten(Tail(ss))

\* The token after the stanza: the next stanza's start tag.
NextStanza == <<StartElement(MessageName, <<>>)>>

Wire(attrs, children) ==
    <<StartElement(MessageName, attrs)>> \o children \o <<EndElement(MessageName)>>
        \o NextStanza

WireInputs == {Wire(<<>>, Flatten(d)) : d \in SeqsUpTo(Fragments, MaxChildren)}

AttrPool ==
    {Attr("", "id", "42"), Attr("", "type", "chat"), Attr("", "to", "bob"),
     Attr("", "from", "alice"), Attr("xml", "lang", "en"),
     Attr("xmlns", "foo", "bar"), Attr("xmlns", "to", "urn:x"),
     Attr("", "foo", "bar")}

\* A start tag carries each attribute name once.
AttrLists ==
    {a \in SeqsUpTo(AttrPool, MaxAttrs) :
        \A i, j \in DOMAIN a : a[i].Name = a[j].Name => i = j}

AttrInputs == {Wire(a, FragBodyFirst) : a \in AttrLists}

RegisteredTypes ==
    {"ReceiptRequest", "ReceiptReceived", "ChatMarkerMarkable",
     "ChatMarkerReceived", "ChatMarkerDisplayed", "ChatMarkerAcknowledged"}

ExtPool ==
    {[type |-> T, XMLName |-> XMLNameTag(T),
      Id |-> IF HasIdAttr(T) THEN "m1" ELSE ""] : T \in RegisteredTypes}

\* The Messages handed to the encoder.
Stanzas ==
    {[XMLName |-> Name("", "message"),
      Id |-> "42", From |-> "alice", To |-> "bob", Type |-> "chat", Lang |-> "en",
      Subject |-> "s1", Body |-> b, Thread |-> "t1", Error |-> ZeroErr,
      Extensions |-> x, X |-> o] :
        b \in {"", "first"},
        x \in SeqsUpTo(ExtPool, MaxExts),
        o \in {NilPtr, {[XMLName |-> XMLNameTag("MsgXOOB"), URL |-> "u1", Desc |-> "d1"]}}}

ConcInputs ==
    {Wire(<<Attr("", "id", "42")>>, FragRequest \o FragBodyFirst),
     Wire(<<>>, FragChatReceived),
     Wire(<<>>, FragUnknown \o FragBodySecond)}

(***************************************************************************)
(* The state machine.                                                      *)
(***************************************************************************)
Fresh(cs, in, snt) ==
    /\ msgTypeRegistry = EmptyMap
    /\ initPc = 0
    /\ calls = cs
    /\ input = in
    /\ sent = snt
    /\ pos = [c \in cs |-> 0]
    /\ eof = [c \in cs |-> Whole]
    /\ pc = [c \in cs |-> "ready"]
    /\ attrIdx = [c \in cs |-> 0]
    /\ msg = [c \in cs |-> ZeroMessage]
    /\ err = [c \in cs |-> Nil]
    /\ ret = [c \in cs |-> [packet |-> ZeroMessage, err |-> Pending]]
    /\ typeRegistry = EmptyMap
    /\ markersPc = 0
    /\ encoded = [c \in cs |-> {}]

Init ==
    \/ \E i \in WireInputs \cup AttrInputs :
           Fresh({1}, [c \in {1} |-> i], [c \in {1} |-> {}])
    \/ \E m \in Stanzas :
           Fresh({1}, [c \in {1} |-> XMPPFormat(m) \o NextStanza], [c \in {1} |-> {m}])
    \/ \E in \in [1..MaxCalls -> ConcInputs] :
           Fresh(1..MaxCalls, in, [c \in 1..MaxCalls |-> {}])

\* init(): the next statement (the Go runtime runs init() to completion
\* before main, so no decode call starts earlier).
RegistryInit ==
    /\ initPc < Len(InitStatements)
    /\ msgTypeRegistry' = Execute(msgTypeRegistry, InitStatements[initPc + 1])
    /\ initPc' = initPc + 1
    /\ UNCHANGED <<calls, input, pos, eof, pc, attrIdx, msg, err, ret, sent,
                   typeRegistry, markersPc, encoded>>

\* init() of msg_chat_markers.go: the next statement.  The init() functions
\* of a package run one after the other, the files taken in the order of
\* their names: message.go before msg_chat_markers.go.
ChatMarkersInit ==
    /\ initPc = Len(InitStatements)
    /\ markersPc < Len(MarkerStatements)
    /\ typeRegistry' = MapExtension(typeRegistry, MarkerStatements[markersPc + 1].name,
                                    MarkerStatements[markersPc + 1].type)
    /\ markersPc' = markersPc + 1
    /\ UNCHANGED <<msgTypeRegistry, initPc, calls, input, pos, eof, pc, attrIdx, msg,
                   err, ret, sent, encoded>>

\* messageDecoder.decode: var packet Message; p.DecodeElement(&packet, &se)
\* enters UnmarshalXML with the start tag se = input[c][1] already read.
Call(c) ==
    /\ InitDone
    /\ pc[c] = "ready"
    /\ pos' = [pos EXCEPT ![c] = 1]
    /\ msg' = [msg EXCEPT ![c] = [ZeroMessage EXCEPT !.XMLName = input[c][1].Name]]
    /\ pc' = [pc EXCEPT ![c] = IF input[c][1].Attr = <<>> THEN "loop" ELSE "attrs"]
    /\ UNCHANGED <<msgTypeRegistry, initPc, calls, input, eof, attrIdx, err, ret, sent,
                   typeRegistry, markersPc, encoded>>

\* One iteration of "for _, attr := range start.Attr".
ExtractAttr(c) ==
    /\ pc[c] = "attrs"
    /\ msg' = [msg EXCEPT ![c] = SetAttr(@, input[c][1].Attr[attrIdx[c] + 1])]
    /\ attrIdx' = [attrIdx EXCEPT ![c] = @ + 1]
    /\ pc' = [pc EXCEPT ![c] =
                 IF attrIdx[c] + 1 = Len(input[c][1].Attr) THEN "loop" ELSE "attrs"]
    /\ UNCHANGED <<msgTypeRegistry, initPc, calls, input, pos, eof, err, ret, sent,
                   typeRegistry, markersPc, encoded>>

Apply(c, r) ==
    /\ msg' = [msg EXCEPT ![c] = r.msg]
    /\ pos' = [pos EXCEPT ![c] = r.pos]
    /\ err' = [err EXCEPT ![c] = r.err]
    /\ pc' = [pc EXCEPT ![c] = IF r.returned THEN "returned" ELSE "loop"]

\* d.Token() fails: the stream broke off after pos[c] tokens.
TokenError(c) ==
    /\ pc[c] = "loop"
    /\ eof' = [eof EXCEPT ![c] = {pos[c]}]
    /\ Apply(c, OnToken(msgTypeRegistry, StreamUpTo(input[c], {pos[c]}), msg[c], pos[c]))
    /\ UNCHANGED <<msgTypeRegistry, initPc, calls, input, attrIdx, ret, sent,
                   typeRegistry, markersPc, encoded>>

\* d.Token() delivers a start element.  The stream may break off inside the
\* subtree DecodeElement reads (q = {n}: after n tokens, fewer than the
\* iteration reads from the whole stream).
HandleStartElement(c) ==
    /\ pc[c] = "loop"
    /\ pos[c] < Len(input[c])
    /\ input[c][pos[c] + 1].kind = "StartElement"
    /\ \E q \in {Whole} \cup {{n} : n \in pos[c] + 1 .. Len(input[c]) - 1} :
          LET r == OnToken(msgTypeRegistry, StreamUpTo(input[c], q), msg[c], pos[c])
          IN /\ \A n \in q :
                    n < OnToken(msgTypeRegistry, input[c], msg[c], pos[c]).pos
             /\ eof' = [eof EXCEPT ![c] = q]
             /\ eof' = [eof EXCEPT ![c] = q]
             /\ Apply(c, r)
    /\ msgTypeRegistry' =
           RegistryAfterLookup(msgTypeRegistry, input[c][pos[c] + 1].Name)
    /\ UNCHANGED <<initPc, calls, input, attrIdx, ret, sent,
                   typeRegistry, markersPc, encoded>>

\* d.Token() delivers an end element.
HandleEndElement(c) ==
    /\ pc[c] = "loop"
    /\ pos[c] < Len(input[c])
    /\ input[c][pos[c] + 1].kind = "EndElement"
    /\ Apply(c, OnToken(msgTypeRegistry, input[c], msg[c], pos[c]))
    /\ UNCHANGED <<msgTypeRegistry, initPc, calls, input, eof, attrIdx, ret, sent,
                   typeRegistry, markersPc, encoded>>

\* d.Token() delivers any other token (character data): no case of the switch.
HandleOther(c) ==
    /\ pc[c] = "loop"
    /\ pos[c] < Len(input[c])
    /\ input[c][pos[c] + 1].kind = "CharData"
    /\ Apply(c, OnToken(msgTypeRegistry, input[c], msg[c], pos[c]))
    /\ UNCHANGED <<msgTypeRegistry, initPc, calls, input, eof, attrIdx, ret, sent,
                   typeRegistry, markersPc, encoded>>

\* messageDecoder.decode: return packet, err.
Return(c) ==
    /\ pc[c] = "returned"
    /\ ret' = [ret EXCEPT ![c] =
                  [packet |-> msg[c],
                   err |-> DecodeElementErr(input[c], pos[c], err[c])]]
    /\ pc' = [pc EXCEPT ![c] = "done"]
    /\ UNCHANGED <<msgTypeRegistry, initPc, calls, input, pos, eof, attrIdx, msg,
                   err, sent, typeRegistry, markersPc, encoded>>

\* The caller serializes the Message the decode call gave it.
Encode(c) ==
    /\ pc[c] = "done"
    /\ ret[c].err = Nil
    /\ encoded[c] = {}
    /\ encoded' = [encoded EXCEPT ![c] = {XMPPFormat(ret[c].packet)}]
    /\ UNCHANGED <<msgTypeRegistry, initPc, calls, input, pos, eof, pc, attrIdx, msg,
                   err, ret, sent, typeRegistry, markersPc>>

Next ==
    \/ RegistryInit
    \/ ChatMarkersInit
    \/ \E c \in calls : Call(c)
    \/ \E c \in calls : ExtractAttr(c)
    \/ \E c \in calls : TokenError(c)
    \/ \E c \in calls : HandleStartElement(c)
    \/ \E c \in calls : HandleEndElement(c)
    \/ \E c \in calls : HandleOther(c)
    \/ \E c \in calls : Return(c)
    \/ \E c \in calls : Encode(c)

Spec == Init /\ [][Next]_vars

(***************************************************************************)
(* The document a call was given, read independently of the decoder.       *)
(***************************************************************************)
\* Indices of the start tags at nesting depth 1 from index i on, in order.
RECURSIVE ChildStarts(_, _, _)
ChildStarts(s, i, depth) ==
    IF i > Len(s) \/ depth = 0 THEN <<>>
    ELSE IF s[i].kind = "StartElement"
         THEN (IF depth = 1 THEN <<i>> ELSE <<>>) \o ChildStarts(s, i + 1, depth + 1)
    ELSE IF s[i].kind = "EndElement" THEN ChildStarts(s, i + 1, depth - 1)
    ELSE ChildStarts(s, i + 1, depth)

\* The start tags of the stanza's own children.
Children(s) == ChildStarts(s, 2, 1)

\* The stanza's own end tag.
StanzaEnd(s) == MatchingEnd(s, 1)

\* The bindings init() makes.
Bindings ==
    {[key |-> Name(InitStatements[i].ns, InitStatements[i].local),
      type |-> InitStatements[i].type] :
        i \in {j \in 1..Len(InitStatements) : InitStatements[j].op = "set"}}

IsRegistered(name) == \E b \in Bindings : b.key = name

CoreChildNames == {"subject", "body", "thread", "error"}

Range(f) == {f[i] : i \in DOMAIN f}

Done(c) == pc[c] = "done"

(***************************************************************************)
(* C1.                                                                     *)
(***************************************************************************)
NonEmptyCore(m) ==
    /\ m.Id # "" /\ m.From # "" /\ m.To # "" /\ m.Type # "" /\ m.Lang # ""
    /\ m.Subject # "" /\ m.Body # "" /\ m.Thread # ""

SameStanza(a, b) ==
    /\ a.Id = b.Id /\ a.From = b.From /\ a.To = b.To /\ a.Type = b.Type
    /\ a.Lang = b.Lang
    /\ a.Subject = b.Subject /\ a.Body = b.Body /\ a.Thread = b.Thread
    /\ a.Extensions = b.Extensions
    /\ a.X = b.X

\* C1: round trip.  Decoding the encoder's output for a Message S whose core
\* fields are non-empty and whose extensions all have registered shapes
\* (S may carry an out-of-band payload) succeeds and yields a Message with
\* the same id/from/to/type/lang, subject/body/thread, extensions and
\* out-of-band payload.
C1_RoundTrip ==
    \A c \in calls : \A m \in sent[c] :
        (Done(c) /\ eof[c] = Whole /\ NonEmptyCore(m)) =>
            /\ ret[c].err = Nil
            /\ SameStanza(ret[c].packet, m)

(***************************************************************************)
(* C2.                                                                     *)
(***************************************************************************)
\* The children whose key is not registered and whose local name is not a
\* core child name.
UnknownChildren(s) ==
    {i \in Range(Children(s)) :
        ~IsRegistered(s[i].Name) /\ s[i].Name.Local \notin CoreChildNames}

\* C2: unknown extension forward compatibility.  A decode call on a whole,
\* well-formed stanza that has a child with an unregistered key (and a local
\* name that is no core child name) returns no error, and the extensions of
\* the result hold no instance for that child.
C2_UnknownExtensionTolerated ==
    \A c \in calls :
        (Done(c) /\ eof[c] = Whole /\ UnknownChildren(input[c]) # {}) =>
            /\ ret[c].err = Nil
            /\ \A i \in UnknownChildren(input[c]) :
                   \A k \in DOMAIN ret[c].packet.Extensions :
                       ret[c].packet.Extensions[k].XMLName # input[c][i].Name

(***************************************************************************)
(* C3.                                                                     *)
(***************************************************************************)
\* The registered extension children of the stanza, in document order, as
\* the instances their start tags give.
RECURSIVE ExtensionsOf(_, _)
ExtensionsOf(s, idx) ==
    IF idx = <<>> THEN <<>>
    ELSE (IF IsRegistered(s[Head(idx)].Name)
          THEN <<NewExtension((CHOOSE b \in Bindings : b.key = s[Head(idx)].Name).type,
                              s[Head(idx)])>>
          ELSE <<>>)
         \o ExtensionsOf(s, Tail(idx))

\* C3: ordering preserved.  After a successful decode the extensions are
\* the stanza's registered extension children in document order, whatever
\* core or unrecognized children stand between them.
C3_OrderingPreserved ==
    \A c \in calls :
        (Done(c) /\ ret[c].err = Nil) =>
            ret[c].packet.Extensions = ExtensionsOf(input[c], Children(input[c]))

(***************************************************************************)
(* C4.                                                                     *)
(***************************************************************************)
\* The value of the start tag's attribute named `local` ("" when absent).
\* xmlns:... attributes are namespace declarations, not attributes of that
\* name; the language marker is written lang or xml:lang.
NamedAttr(attrs, local) ==
    LET idx == {i \in 1..Len(attrs) :
                   /\ attrs[i].Name.Local = local
                   /\ attrs[i].Name.Space \in
                          (IF local = "lang" THEN {"", "xml"} ELSE {""})}
    IN IF idx = {} THEN ""
       ELSE attrs[CHOOSE i \in idx : \A j \in idx : j <= i].Value

AttrsExtracted(c) == pc[c] \in {"loop", "returned", "done"}

\* C4: attribute extraction.  Once the start tag's attributes have been
\* read, id, type, to, from and lang each hold the value of the attribute of
\* that name, or stay empty when it is absent; no other attribute changes
\* a core field.
C4_AttributeExtraction ==
    \A c \in calls :
        AttrsExtracted(c) =>
            /\ msg[c].Id = NamedAttr(input[c][1].Attr, "id")
            /\ msg[c].Type = NamedAttr(input[c][1].Attr, "type")
            /\ msg[c].To = NamedAttr(input[c][1].Attr, "to")
            /\ msg[c].From = NamedAttr(input[c][1].Attr, "from")
            /\ msg[c].Lang = NamedAttr(input[c][1].Attr, "lang")

(***************************************************************************)
(* C5.                                                                     *)
(***************************************************************************)
\* The stanza's own children with this local name, as a set of indices.
ChildrenNamed(s, local) == {i \in Range(Children(s)) : s[i].Name.Local = local}

Last(S) == CHOOSE i \in S : \A j \in S : j <= i

\* C5: last one wins.  When subject, body or thread occurs more than once
\* among the stanza's children, decoding the whole stanza succeeds and the
\* field holds the text of the last occurrence.
C5_LastOneWins ==
    \A c \in calls :
        \A f \in {"subject", "body", "thread"} :
            LET occ == ChildrenNamed(input[c], f)
                p == ret[c].packet
            IN (Done(c) /\ eof[c] = Whole /\ Cardinality(occ) >= 2) =>
                   /\ ret[c].err = Nil
                   /\ (CASE f = "subject" -> p.Subject
                         [] f = "body" -> p.Body
                         [] f = "thread" -> p.Thread)
                        = ElementText(input[c], Last(occ),
                                      MatchingEnd(input[c], Last(occ)))

(***************************************************************************)
(* C6.                                                                     *)
(***************************************************************************)
\* Call c is about to read the start tag of an element whose key is `b.key`.
AboutToRead(c, b) ==
    /\ pc[c] = "loop"
    /\ pos[c] < Len(input[c])
    /\ input[c][pos[c] + 1].kind = "StartElement"
    /\ input[c][pos[c] + 1].Name = b.key

\* C6: registry isolation.  With shape X registered under (nsA, name) and
\* shape Y under (nsB, name), a step that decodes a child tagged (nsA, name)
\* whose subtree is whole appends exactly one instance, of X and not of Y,
\* and reports no error.
C6_RegistryIsolation ==
    [][\A c \in calls : \A b \in Bindings : \A b2 \in Bindings :
         (/\ b2.key.Local = b.key.Local /\ b2.key.Space # b.key.Space
          /\ AboutToRead(c, b)
          /\ pos'[c] # pos[c]
          /\ eof'[c] = Whole)
         => /\ err'[c] = Nil
            /\ Len(msg'[c].Extensions) = Len(msg[c].Extensions) + 1
            /\ SubSeq(msg'[c].Extensions, 1, Len(msg[c].Extensions))
                   = msg[c].Extensions
            /\ msg'[c].Extensions[Len(msg'[c].Extensions)].type = b.type
            /\ msg'[c].Extensions[Len(msg'[c].Extensions)].type # b2.type
            /\ msg'[c].Extensions[Len(msg'[c].Extensions)].XMLName = b.key]_vars

\* Both "received" children, one of each namespace, decoded in one stanza.
C6_Witness ==
    \E c \in calls :
        /\ Done(c) /\ ret[c].err = Nil
        /\ \E i, j \in DOMAIN ret[c].packet.Extensions :
               /\ ret[c].packet.Extensions[i].type = "ReceiptReceived"
               /\ ret[c].packet.Extensions[j].type = "ChatMarkerReceived"

(***************************************************************************)
(* C7.                                                                     *)
(***************************************************************************)
\* C7: malformed input fails closed.  When the stream breaks off before the
\* stanza's end tag, the decode call reports a failure and returns no
\* Message: nothing of what was read before the failure is in the value
\* handed to the caller.
C7_FailsClosed ==
    \A c \in calls :
        (Done(c) /\ eof[c] # Whole) =>
            /\ ret[c].err # Nil
            /\ [ret[c].packet EXCEPT !.XMLName = ZeroMessage.XMLName] = ZeroMessage

(***************************************************************************)
(* C8.                                                                     *)
(***************************************************************************)
\* C8: exact consumption.  When the decoder returns without error on a
\* whole stanza, it has read exactly the tokens through the stanza's own
\* end tag, whatever the nesting and names of the descendants.
C8_ExactConsumption ==
    \A c \in calls :
        (pc[c] \in {"returned", "done"} /\ eof[c] = Whole /\ err[c] = Nil) =>
            pos[c] = StanzaEnd(input[c])

(***************************************************************************)
(* C9.                                                                     *)
(***************************************************************************)
\* Instance e of call c was made for a start tag the call has read, whose
\* key the registry binds to e's shape.
MadeForRegisteredTag(c, e) ==
    /\ e.XMLName.Space \in DOMAIN msgTypeRegistry
    /\ e.XMLName.Local \in DOMAIN msgTypeRegistry[e.XMLName.Space]
    /\ msgTypeRegistry[e.XMLName.Space][e.XMLName.Local] = e.type
    /\ \E i \in 2..pos[c] :
           input[c][i].kind = "StartElement" /\ input[c][i].Name = e.XMLName

\* C9: extensions invariant.  In every state during and after a decode
\* call, each instance in the extensions (of the Message being filled and of
\* the Message returned) was created for a start tag whose key is bound in
\* the registry, with the shape bound to it.
C9_ExtensionsInvariant ==
    \A c \in calls :
        /\ \A k \in DOMAIN msg[c].Extensions :
               MadeForRegisteredTag(c, msg[c].Extensions[k])
        /\ \A k \in DOMAIN ret[c].packet.Extensions :
               MadeForRegisteredTag(c, ret[c].packet.Extensions[k])

\* A finished decode of a stanza with an unregistered child and a registered
\* one: an instance for the latter only.
C9_Witness ==
    \E c \in calls :
        /\ Done(c) /\ ret[c].err = Nil
        /\ UnknownChildren(input[c]) # {}
        /\ \A i \in UnknownChildren(input[c]) : i <= pos[c]
        /\ Len(ret[c].packet.Extensions) >= 1

(***************************************************************************)
(* C10.                                                                    *)
(***************************************************************************)
RECURSIVE ExtractAttrs(_, _)
ExtractAttrs(m, attrs) ==
    IF attrs = <<>> THEN m ELSE ExtractAttrs(SetAttr(m, Head(attrs)), Tail(attrs))

RECURSIVE TokenLoop(_, _, _, _)
TokenLoop(reg, s, m, p) ==
    LET r == OnToken(reg, s, m, p)
    IN IF r.returned THEN r ELSE TokenLoop(reg, s, r.msg, r.pos)

\* The decode call run alone on stream s, after init().
DecodeAlone(s) ==
    LET reg == ExecuteAll(EmptyMap, Len(InitStatements))
        m0 == ExtractAttrs([ZeroMessage EXCEPT !.XMLName = s[1].Name], s[1].Attr)
        r == TokenLoop(reg, s, m0, 1)
    IN [packet |-> r.msg, err |-> DecodeElementErr(s, r.pos, r.err)]

\* The stream call c's reader delivered.
Delivered(c) == StreamUpTo(input[c], eof[c])

\* What belongs to call c.
CallState(c) ==
    <<input[c], pos[c], eof[c], pc[c], attrIdx[c], msg[c], err[c], ret[c], encoded[c]>>

\* C10: concurrent decoding.  Once init() has completed, each decode call of
\* any interleaving returns what the call returns when run alone on its
\* reader, no step writes the registry, and each step changes the state of
\* at most one call.
C10_ConcurrentDecoding ==
    /\ [](\A c \in calls : Done(c) => ret[c] = DecodeAlone(Delivered(c)))
    /\ [][/\ InitDone => msgTypeRegistry' = msgTypeRegistry
          /\ \E c \in calls :
                 \A d \in calls \ {c} : CallState(d)' = CallState(d)]_vars

\* Two calls in flight: one has returned a Message while the other is in
\* the middle of its token loop.
C10_Witness ==
    \E c \in calls : \E d \in calls \ {c} :
        /\ Done(c) /\ ret[c].err = Nil
        /\ Len(ret[c].packet.Extensions) >= 1
        /\ pc[d] = "loop" /\ pos[d] > 1

(***************************************************************************)
(* C11.                                                                    *)
(***************************************************************************)
\* Name is the key of an element the decoder has no handling for.
Unrecognized(name) == ~IsRegistered(name) /\ name.Local \notin CoreChildNames

\* The tokens of s from index i on, read at the level of the stanza's
\* children, without the subtrees of the unrecognized children.
RECURSIVE Strip(_, _)
Strip(s, i) ==
    IF i > Len(s) THEN <<>>
    ELSE IF s[i].kind = "StartElement"
         THEN (IF Unrecognized(s[i].Name) THEN <<>>
               ELSE SubSeq(s, i, MatchingEnd(s, i)))
              \o Strip(s, MatchingEnd(s, i) + 1)
    ELSE IF s[i].kind = "EndElement" THEN SubSeq(s, i, Len(s))
    ELSE <<s[i]>> \o Strip(s, i + 1)

\* The document s with its unrecognized children removed.
WithoutUnrecognized(s) == <<s[1]>> \o Strip(s, 2)

OOBChildren(s) == {i \in Range(Children(s)) : s[i].Name = XMLNameTag("MsgXOOB")}

\* The text of the last child of the element s[p] with this local name, ""
\* when it has none.
ChildText(s, p, local) ==
    LET kids == {i \in Range(ChildStarts(s, p + 1, 1)) : s[i].Name.Local = local}
    IN IF kids = {} THEN ""
       ELSE ElementText(s, Last(kids), MatchingEnd(s, Last(kids)))

\* The MsgXOOB that the element s[p] spells out: URL `xml:"url"`,
\* Desc `xml:"desc,omitempty"`.
DecodeOOB(s, p) ==
    [XMLName |-> s[p].Name, URL |-> ChildText(s, p, "url"),
     Desc |-> ChildText(s, p, "desc")]

SubtreeFails(c) ==
    /\ pc[c] = "loop"
    /\ pos[c] < Len(input[c])
    /\ input[c][pos[c] + 1].kind = "StartElement"
    /\ eof[c] = Whole
    /\ \E n \in eof'[c] : n > pos[c]

\* C13: a failure inside a child stops the decode at that point.  The step
\* in which the subtree of a registered extension child or of a core child
\* fails returns from UnmarshalXML with that failure, has read the tokens up
\* to the break and no further, and appends nothing to the extensions; after
\* the return no token is read and nothing is decoded again, and the decode
\* call hands that failure to its caller.
C13_FailureStopsDecode ==
    [][\A c \in calls :
         /\ SubtreeFails(c) =>
                /\ pc'[c] = "returned"
                /\ err'[c] = ErrEOF
                /\ eof'[c] = {pos'[c]}
                /\ msg'[c].Extensions = msg[c].Extensions
         /\ pc[c] \in {"returned", "done"} =>
                /\ pos'[c] = pos[c] /\ msg'[c] = msg[c] /\ err'[c] = err[c]
                /\ pc'[c] \in {pc[c], "done"}
         /\ (pc[c] = "returned" /\ pc'[c] = "done" /\ err[c] # Nil) =>
                ret'[c].err = err[c]]_vars

\* A decode that has returned the failure of its second registered child,
\* whose start tag was the last token the reader delivered: the first
\* child's instance is the only one.
C13_Witness ==
    \E c \in calls : \E n \in eof[c] :
        /\ Done(c) /\ ret[c].err = ErrEOF
        /\ n = pos[c]
        /\ input[c][n].kind = "StartElement" /\ IsRegistered(input[c][n].Name)
        /\ Len(ret[c].packet.Extensions) = 1

(***************************************************************************)
(* C14.                                                                    *)
(***************************************************************************)
CoreFields(m) == <<m.Subject, m.Body, m.Thread, m.Error>>

\* Call c is about to read a start tag.
AtStartTag(c) ==
    /\ pc[c] = "loop"
    /\ pos[c] < Len(input[c])
    /\ input[c][pos[c] + 1].kind = "StartElement"

C15_EmissionOrder ==
    \A c \in calls : \A m \in sent[c] :
        LET out == input[c]
            oob == OOBChildren(out)
        IN /\ ExtensionsOf(out, Children(out)) = m.Extensions
           /\ m.X = NilPtr => oob = {}
           /\ m.X # NilPtr =>
                  /\ Cardinality(oob) = 1
                  /\ \A x \in oob :
                         /\ \A i \in Range(Children(out)) :
                                IsRegistered(out[i].Name) => i < x
                         /\ MatchingEnd(out, x) + 1 = StanzaEnd(out)

\* The encoding of a Message with a body, two different extensions and an
\* out-of-band payload, read back by a decode call.
C15_Witness ==
    \E c \in calls : \E m \in sent[c] :
        /\ Done(c)
        /\ m.Body # "" /\ m.X # NilPtr
        /\ Len(m.Extensions) = 2 /\ m.Extensions[1] # m.Extensions[2]

(***************************************************************************)
(* C16.                                                                    *)
(***************************************************************************)
\* What a child is for the comparison of two documents: its key when it is
\* a registered extension, else its local name (the encoder writes the core
\* children without a namespace of their own).
ChildKey(s, i) ==
    IF IsRegistered(s[i].Name) THEN s[i].Name ELSE Name("", s[i].Name.Local)

\* The stanza's children in document order.
ChildKeys(s) == [k \in DOMAIN Children(s) |-> ChildKey(s, Children(s)[k])]

\* The elements of a occur in b in the same relative order.
RECURSIVE IsSubseq(_, _)
IsSubseq(a, b) ==
    IF a = <<>> THEN TRUE
    ELSE IF b = <<>> THEN FALSE
    ELSE IF Head(a) = Head(b) THEN IsSubseq(Tail(a), Tail(b))
    ELSE IsSubseq(a, Tail(b))

\* Every child of the stanza is a core child (subject, body, thread, error,
\* the out-of-band element) or a registered extension.
AllKnown(s) ==
    \A i \in Range(Children(s)) :
        \/ IsRegistered(s[i].Name)
        \/ s[i].Name.Local \in CoreChildNames
        \/ s[i].Name = XMLNameTag("MsgXOOB")

\* C16: the encoder preserves the original child ordering.  When the
\* Message decoded from a wire stanza W, whose children are all core
\* children or registered extensions, is encoded, the children of the output
\* stand in the relative order they have in W.
C16_ChildOrderPreserved ==
    \A c \in calls : \A out \in encoded[c] :
        AllKnown(input[c]) => IsSubseq(ChildKeys(out), ChildKeys(input[c]))

\* The place of a child in the declaration order of Message's fields.
Rank(s, i) ==
    CASE IsRegistered(s[i].Name) -> "5 Extensions"
      [] s[i].Name.Local = "subject" -> "1 Subject"
      [] s[i].Name.Local = "body" -> "2 Body"
      [] s[i].Name.Local = "thread" -> "3 Thread"
      [] s[i].Name.Local = "error" -> "4 Error"
      [] OTHER -> "6 X"

Before(a, b) ==
    LET order == <<"1 Subject", "2 Body", "3 Thread", "4 Error", "5 Extensions", "6 X">>
        At(x) == CHOOSE k \in DOMAIN order : order[k] = x
    IN At(a) < At(b)

\* C16, amended: encoding the Message decoded from such a W emits the core
\* children first, each once and in the fixed order subject, body, thread,
\* error, whatever their place in W was, and after them the registered
\* extensions in the relative order they have in W.
C16_ExtensionOrderPreserved ==
    \A c \in calls : \A out \in encoded[c] :
        AllKnown(input[c]) =>
            /\ ExtensionsOf(out, Children(out))
                   = ExtensionsOf(input[c], Children(input[c]))
            /\ \A i, j \in Range(Children(out)) :
                   i < j => \/ Before(Rank(out, i), Rank(out, j))
                            \/ IsRegistered(out[i].Name) /\ IsRegistered(out[j].Name)
            /\ \A n \in CoreChildNames :
                   ChildrenNamed(out, n) # {} <=> ChildrenNamed(input[c], n) # {}

\* The encoding of the Message decoded from a stanza in which a <body>
\* stands between two registered extensions.
C16_Witness ==
    \E c \in calls : \E out \in encoded[c] :
        /\ AllKnown(input[c])
        /\ Len(ChildKeys(out)) = 3
        /\ \E i, j, k \in Range(Children(input[c])) :
               /\ i < j /\ j < k
               /\ IsRegistered(input[c][i].Name)
               /\ input[c][j].Name.Local = "body"
               /\ IsRegistered(input[c][k].Name)

(***************************************************************************)
(* C17.                                                                    *)
(***************************************************************************)
\* The keys some init() binds.
AllKeys ==
    {b.key : b \in Bindings} \cup {MarkerStatements[i].name : i \in DOMAIN MarkerStatements}

\* The shapes the process binds to a key, in either registry.
ShapesBoundTo(key) ==
    (IF Lookup(msgTypeRegistry, key) # Nil THEN {Lookup(msgTypeRegistry, key)} ELSE {})
        \cup (IF key \in DOMAIN typeRegistry THEN {typeRegistry[key]} ELSE {})

\* C17: key uniqueness across registrations.  Once the init() functions have
\* run, every registered (namespace, localName) key is bound to exactly one
\* shape in the whole process, and each instance the message decoder makes
\* for a key that the chat-marker module registered has the shape that
\* module registered for it.
C17_KeyUniqueness ==
    /\ InitDone => \A key \in AllKeys : Cardinality(ShapesBoundTo(key)) = 1
    /\ \A c \in calls : \A k \in DOMAIN msg[c].Extensions :
           msg[c].Extensions[k].XMLName \in DOMAIN typeRegistry =>
               msg[c].Extensions[k].type = typeRegistry[msg[c].Extensions[k].XMLName]

(***************************************************************************)
(* C18.                                                                    *)
(***************************************************************************)
\* C18: termination.  A decode call that has finished either returned the
\* Message, having read the tokens through the end tag that matches the
\* stanza's start tag, or returned a failure after its reader had reported an
\* error or the end of the stream.
C18_FinishesAtEndTagOrReaderFailure ==
    \A c \in calls :
        Done(c) =>
            \/ ret[c].err = Nil /\ pos[c] = StanzaEnd(input[c])
            \/ ret[c].err # Nil /\ eof[c] # Whole

\* Every iteration of the token loop consumes at least one token or returns
\* the reader's error.
C18_Progress ==
    [][\A c \in calls :
         (pc[c] = "loop" /\ CallState(c)' # CallState(c)) =>
             \/ pos'[c] > pos[c]
             \/ pc'[c] = "returned" /\ err'[c] # Nil]_vars

\* A step of decode call c.
CallStep(c) ==
    /\ c \in calls
    /\ \/ Call(c) \/ ExtractAttr(c) \/ TokenError(c) \/ HandleStartElement(c)
       \/ HandleEndElement(c) \/ HandleOther(c) \/ Return(c)

\* The runtime runs the init() functions to their end, and a goroutine that
\* can take a step of its decode call takes it in the end.
FairSpec ==
    /\ Spec
    /\ WF_vars(RegistryInit \/ ChatMarkersInit)
    /\ \A c \in 1..MaxCalls : WF_vars(CallStep(c))

\* Every decode call finishes.
C18_Terminates == <>(\A c \in calls : Done(c))

====
